---- MODULE Spec2Model ----
(***************************************************************************)
(* gsqlite: a DB-API 2.0 driver over the sqlite3 C library (ctypes).       *)
(*                                                                         *)
(* The model follows the classes that connection.py wires together:        *)
(* Connection (connection.py) and Cursor = CursorFetchLayer over           *)
(* CursorExecutionLayer over CursorIterator (cursor.py), the hooks of      *)
(* description.py and lastrowid.py, and the helpers of utils.py.           *)
(*                                                                         *)
(* Every public method is one action.  A method body is a composition of   *)
(* operators over a "world" record w that carries the engine state, the    *)
(* cursor the method runs on, the native calls made so far and the pending *)
(* Python exception (w.exc); an operator is skipped once w.exc is set,     *)
(* which is how a raise unwinds the method.                                *)
(*                                                                         *)
(* The sqlite3 library is external.  It is modelled as far as the driver   *)
(* can observe it: one table t(x NOT NULL), statements with a result       *)
(* position, the return codes of prepare/bind/step/reset/finalize, and a   *)
(* transaction flag with a rollback image.                                 *)
(***************************************************************************)
EXTENDS Integers, Sequences, FiniteSets, TLC

(* ------------------------------ bounds --------------------------------- *)

\* user cursors created by Connection.cursor()
MaxCursors == 1
\* statement handles the engine hands out in one behaviour
MaxStmts == 3
\* rows the table may hold
MaxRows == 2

(* --------------------- sqlite3 ABI constants --------------------------- *)
\* constants.py is imported by utils.py and cursor.py; the numbers are the
\* ones of sqlite3.h.

SQLITE_OK == 0
SQLITE_ERROR == 1
SQLITE_CONSTRAINT == 19
SQLITE_MISUSE == 21
SQLITE_RANGE == 25
SQLITE_ROW == 100
SQLITE_DONE == 101

SQLITE_INTEGER == 1
SQLITE_FLOAT == 2
SQLITE_TEXT == 3
SQLITE_BLOB == 4
SQLITE_NULL == 5

(* ------------------------- Python values ------------------------------- *)

None == [type |-> "NoneType", v |-> 0]

PyInt(n) == [type |-> "int", v |-> n]

\* An int outside the 32-bit range, hi * 2^32 + lo with hi # 0 and lo the
\* value of its low 32 bits read as a C int.
PyBig(hi, lo) == [type |-> "int", v |-> lo, hi |-> hi]

\* A float, v its value in tenths.
PyFloat(tenths) == [type |-> "float", v |-> tenths]

\* A str, v its code points.
PyStr(chars) == [type |-> "str", v |-> chars]

\* A bytes object, v its bytes.
PyBytes(bytes) == [type |-> "bytes", v |-> bytes]

\* A list: a value of a type bind_param has no branch for.
PyList(items) == [type |-> "list", v |-> items]

\* str.encode("utf-8"), for code points below 2048
RECURSIVE encode(_)
encode(chars) ==
    IF chars = <<>> THEN <<>>
    ELSE (IF Head(chars) < 128 THEN <<Head(chars)>>
          ELSE <<192 + (Head(chars) \div 64), 128 + (Head(chars) % 64)>>)
         \o encode(Tail(chars))

\* bytes.decode("utf-8") of what c_char_p returns, the bytes up to the first
\* NUL: [exc, val]
RECURSIVE decode(_)
decode(bytes) ==
    IF bytes = <<>> \/ Head(bytes) = 0 THEN [exc |-> "none", val |-> <<>>]
    ELSE IF Head(bytes) < 128
    THEN [exc |-> decode(Tail(bytes)).exc,
          val |-> <<Head(bytes)>> \o decode(Tail(bytes)).val]
    ELSE IF Head(bytes) >= 192 /\ Len(bytes) >= 2 /\ bytes[2] \in 128..191
    THEN [exc |-> decode(Tail(Tail(bytes))).exc,
          val |-> <<(Head(bytes) - 192) * 64 + (bytes[2] - 128)>>
                  \o decode(Tail(Tail(bytes))).val]
    ELSE [exc |-> "UnicodeDecodeError", val |-> <<>>]

\* the scalar parameters the callers pass
Values == {PyInt(1), PyInt(2), None}

(* ------------------------ operation texts ------------------------------ *)
\* A text is a sequence of pieces: a piece is a run of whitespace (WS) or a
\* word.  str.split() keeps the words, str.upper() maps a word to upper case.

WS == " "

T_EMPTY == <<>>
T_BLANK == <<WS>>
T_SELECT == <<WS, "select", WS, "t">>
T_INSERT == <<"INSERT", WS, "?">>
T_DELETE == <<"delete", WS, "t">>
T_CREATE == <<"CREATE", WS, "t">>
T_REPLACE == <<"REPLACE", WS, "?">>
T_CALL == <<"CALL", WS, "t">>
T_BEGIN == <<"BEGIN">>
T_COMMIT == <<"COMMIT">>
T_ROLLBACK == <<"ROLLBACK">>

\* the texts a caller passes to execute / executemany
Texts == {T_EMPTY, T_BLANK, T_SELECT, T_INSERT, T_DELETE, T_REPLACE, T_CALL}

upper(word) ==
    CASE word = "select" -> "SELECT"
      [] word = "delete" -> "DELETE"
      [] OTHER -> word

split(text) == SelectSeq(text, LAMBDA p : p # WS)


(* ------------------------------ utils.py ------------------------------- *)
\* A helper that can raise returns [exc, val]; exc = "none" is a return.

get_operation_command(operation) ==
    IF split(operation) = <<>>
    THEN [exc |-> "IndexError", val |-> ""]
    ELSE [exc |-> "none", val |-> upper(Head(split(operation)))]

is_dql_opreation(operation) ==
    LET c == get_operation_command(operation)
    IN [exc |-> c.exc, val |-> c.exc = "none" /\ c.val = "SELECT"]

DML_COMMANDS == {"INSERT", "DELETE", "UPDATE", "CALL", "LOCK", "EXPLAIN_CALL"}

is_dml_operation(operation) ==
    LET c == get_operation_command(operation)
    IN [exc |-> c.exc, val |-> c.exc = "none" /\ c.val \in DML_COMMANDS]

SUCCESS_RCS == {SQLITE_DONE, SQLITE_ROW, SQLITE_OK}

\* sqlite3_errstr(rc)
errstr(rc) ==
    CASE rc = SQLITE_ERROR -> "SQL logic error"
      [] rc = SQLITE_CONSTRAINT -> "constraint failed"
      [] rc = SQLITE_MISUSE -> "bad parameter or other API misuse"
      [] rc = SQLITE_RANGE -> "column index out of range"
      [] OTHER -> "unknown error"

Raise(w, kind, text) == [w EXCEPT !.exc = kind, !.msg = text]

\* mutant of sqlite3_rc_guard: "row" and "done" are taken for failures
sqlite3_rc_guard_ok_only(w) ==
    IF w.exc # "none" THEN w
    ELSE IF w.rc # SQLITE_OK
         THEN Raise(w, "DatabaseError", errstr(w.rc))
         ELSE w

sqlite3_rc_guard(w) ==
    IF w.exc # "none" THEN w
    ELSE IF w.rc \notin SUCCESS_RCS
         THEN Raise(w, "DatabaseError", errstr(w.rc))
         ELSE w

(* --------------------------- the engine -------------------------------- *)
\* Engine values: a type tag and a payload.

SqlNull == [tag |-> SQLITE_NULL, v |-> 0]

\* A statement slot whose handle was finalized.
Freed ==
    [live |-> FALSE, owner |-> 0, kind |-> "", nparams |-> 0, bound |-> <<>>,
     state |-> "ready", rows |-> <<>>, pos |-> 0, err |-> SQLITE_OK,
     freed |-> 0]

\* The slot of a handle finalized when n handles had been made: the memory
\* of the statement goes back to the allocator.
FreedAt(n) == [Freed EXCEPT !.freed = n]

\* What the build can do with a call on a finalized handle: answer
\* SQLITE_MISUSE, answer SQLITE_OK, crash; or the allocator has given the
\* address to the statement prepared next ("reused").
UB == {"misuse", "ok", "crash", "reused"}

NativeCall(w, fn) == [w EXCEPT !.calls = Append(@, fn)]

\* A native call on statement handle h that is not a live statement: NULL is
\* answered SQLITE_MISUSE, a finalized handle is a use after free.
BadHandle(w, h) ==
    IF h = 0 THEN [w EXCEPT !.rc = SQLITE_MISUSE]
    ELSE CASE w.ub = "misuse" -> [w EXCEPT !.uaf = TRUE, !.rc = SQLITE_MISUSE]
           [] w.ub = "ok" -> [w EXCEPT !.uaf = TRUE, !.rc = SQLITE_OK]
           [] w.ub = "reused" -> [w EXCEPT !.uaf = TRUE, !.rc = SQLITE_MISUSE]
           [] OTHER -> [w EXCEPT !.uaf = TRUE, !.crashed = TRUE, !.exc = "crash"]

IsLive(w, h) == h \in 1..Len(w.stmts) /\ w.stmts[h].live

\* The statement that may have the address of finalized handle h: the one
\* prepared first after h was finalized (0 when h is no finalized handle).
ReusedBy(w, h) ==
    IF h \in 1..Len(w.stmts) /\ ~w.stmts[h].live
    THEN w.stmts[h].freed + 1 ELSE 0

\* How the engine parses a text: keywords are case-insensitive, leading
\* whitespace is skipped. [rc, kind, nparams]
EngineParse(text) ==
    LET toks == split(text)
        kw == IF toks = <<>> THEN "" ELSE upper(Head(toks))
    IN CASE kw = "" -> [rc |-> SQLITE_OK, kind |-> "", nparams |-> 0]
         [] kw \in {"INSERT", "REPLACE"} ->
                [rc |-> SQLITE_OK, kind |-> "INSERT", nparams |-> 1]
         [] kw \in {"SELECT", "DELETE", "BEGIN", "COMMIT", "ROLLBACK"} ->
                [rc |-> SQLITE_OK, kind |-> kw, nparams |-> 0]
         [] OTHER -> [rc |-> SQLITE_ERROR, kind |-> "", nparams |-> 0]

\* sqlite3_prepare_v2(db, text, -1, &stmt, &tail): the new handle is written
\* through the out-parameter, NULL when nothing was compiled.
sqlite3_prepare_v2(w0, text) ==
    LET w == NativeCall(w0, "prepare")
        p == EngineParse(text)
        h == Len(w.stmts) + 1
    IN IF p.rc # SQLITE_OK \/ p.kind = ""
       THEN [w EXCEPT !.rc = p.rc, !.cur.statement = 0]
       ELSE [w EXCEPT !.rc = SQLITE_OK,
                      !.cur.statement = h,
                      !.stmts = Append(@,
                          [live |-> TRUE, owner |-> w.cur.id, kind |-> p.kind,
                           nparams |-> p.nparams,
                           bound |-> [i \in 1..p.nparams |-> SqlNull],
                           state |-> "ready", rows |-> <<>>, pos |-> 0,
                           err |-> SQLITE_OK, freed |-> 0])]

\* sqlite3_finalize(stmt): frees the statement whatever it returns, and
\* returns the error of the statement's last failed step.
sqlite3_finalize(w0, h) ==
    LET w == NativeCall(w0, "finalize")
    IN IF IsLive(w, h)
       THEN [w EXCEPT !.rc = w.stmts[h].err,
                      !.stmts[h] = FreedAt(Len(w.stmts))]
       ELSE IF w.ub = "reused" /\ IsLive(w, ReusedBy(w, h))
       THEN [w EXCEPT !.uaf = TRUE,
                      !.rc = w.stmts[ReusedBy(w, h)].err,
                      !.stmts[ReusedBy(w, h)] = FreedAt(Len(w.stmts))]
       ELSE BadHandle(w, h)

\* sqlite3_reset(stmt): back to the start, bindings kept; returns the error of
\* the last failed step.
sqlite3_reset(w0, h) ==
    LET w == NativeCall(w0, "reset")
    IN IF ~IsLive(w, h) THEN BadHandle(w, h)
       ELSE [w EXCEPT !.rc = w.stmts[h].err,
                      !.stmts[h].state = "ready", !.stmts[h].err = SQLITE_OK,
                      !.stmts[h].rows = <<>>, !.stmts[h].pos = 0]

\* sqlite3_bind_*(stmt, index, value)
sqlite3_bind(w0, h, index, value) ==
    LET w == NativeCall(w0, "bind")
    IN IF ~IsLive(w, h) THEN BadHandle(w, h)
       ELSE IF index \notin 1..w.stmts[h].nparams
            THEN [w EXCEPT !.rc = SQLITE_RANGE]
            ELSE [w EXCEPT !.rc = SQLITE_OK, !.stmts[h].bound[index] = value]

\* One run of a statement from its start: what sqlite3_step does on a
\* statement that is not in the middle of its rows (a finished or failed
\* statement is reset by the engine before it runs again).
StepFromStart(w, h) ==
    LET st == w.stmts[h]
    IN CASE st.kind = "SELECT" ->
              IF w.table = <<>>
              THEN [w EXCEPT !.rc = SQLITE_DONE, !.stmts[h].state = "done",
                             !.stmts[h].err = SQLITE_OK,
                             !.stmts[h].rows = <<>>, !.stmts[h].pos = 0]
              ELSE [w EXCEPT !.rc = SQLITE_ROW, !.stmts[h].state = "row",
                             !.stmts[h].err = SQLITE_OK,
                             !.stmts[h].rows = [i \in 1..Len(w.table) |->
                                 <<[tag |-> SQLITE_INTEGER, v |-> i], w.table[i]>>],
                             !.stmts[h].pos = 1]
         [] st.kind = "INSERT" ->
              IF st.bound[1] = SqlNull
              THEN [w EXCEPT !.rc = SQLITE_CONSTRAINT, !.stmts[h].state = "error",
                             !.stmts[h].err = SQLITE_CONSTRAINT]
              ELSE [w EXCEPT !.rc = SQLITE_DONE, !.stmts[h].state = "done",
                             !.stmts[h].err = SQLITE_OK,
                             !.table = Append(@, st.bound[1]),
                             !.rowid = Len(w.table) + 1]
         [] st.kind = "DELETE" ->
              [w EXCEPT !.rc = SQLITE_DONE, !.stmts[h].state = "done",
                        !.stmts[h].err = SQLITE_OK, !.table = <<>>]
         [] st.kind = "BEGIN" ->
              IF w.txn
              THEN [w EXCEPT !.rc = SQLITE_ERROR, !.stmts[h].state = "error",
                             !.stmts[h].err = SQLITE_ERROR]
              ELSE [w EXCEPT !.rc = SQLITE_DONE, !.stmts[h].state = "done",
                             !.stmts[h].err = SQLITE_OK,
                             !.txn = TRUE, !.saved = w.table]
         [] st.kind = "COMMIT" ->
              IF ~w.txn
              THEN [w EXCEPT !.rc = SQLITE_ERROR, !.stmts[h].state = "error",
                             !.stmts[h].err = SQLITE_ERROR]
              ELSE [w EXCEPT !.rc = SQLITE_DONE, !.stmts[h].state = "done",
                             !.stmts[h].err = SQLITE_OK,
                             !.txn = FALSE, !.saved = <<>>]
         [] OTHER ->  \* ROLLBACK
              IF ~w.txn
              THEN [w EXCEPT !.rc = SQLITE_ERROR, !.stmts[h].state = "error",
                             !.stmts[h].err = SQLITE_ERROR]
              ELSE [w EXCEPT !.rc = SQLITE_DONE, !.stmts[h].state = "done",
                             !.stmts[h].err = SQLITE_OK,
                             !.txn = FALSE, !.table = w.saved, !.saved = <<>>]

\* sqlite3_step(stmt)
sqlite3_step(w0, h) ==
    LET w == NativeCall(w0, "step")
    IN IF ~IsLive(w, h) THEN BadHandle(w, h)
       ELSE IF w.stmts[h].state = "row"
            THEN IF w.stmts[h].pos < Len(w.stmts[h].rows)
                 THEN [w EXCEPT !.rc = SQLITE_ROW, !.stmts[h].pos = @ + 1]
                 ELSE [w EXCEPT !.rc = SQLITE_DONE, !.stmts[h].state = "done"]
            ELSE StepFromStart(w, h)

\* sqlite3_data_count(stmt): the columns of the current row, 0 without one
sqlite3_data_count(w, h) ==
    IF IsLive(w, h) /\ w.stmts[h].state = "row"
    THEN Len(w.stmts[h].rows[w.stmts[h].pos])
    ELSE 0

\* sqlite3_column_count(stmt): the columns of the statement's result
sqlite3_column_count(w, h) ==
    IF IsLive(w, h) /\ w.stmts[h].kind = "SELECT" THEN 2 ELSE 0

\* sqlite3_column_name(stmt, n)
sqlite3_column_name(w, h, n) == IF n = 0 THEN "rowid" ELSE "x"

\* The engine value of column index (0-based) of the current row; NULL when
\* there is no such column.
ColumnValue(w, h, index) ==
    IF IsLive(w, h) /\ w.stmts[h].state = "row"
       /\ index + 1 \in 1..Len(w.stmts[h].rows[w.stmts[h].pos])
    THEN w.stmts[h].rows[w.stmts[h].pos][index + 1]
    ELSE SqlNull

\* sqlite3_column_type(stmt, index)
sqlite3_column_type(w, h, index) == ColumnValue(w, h, index).tag

\* sqlite3_last_insert_rowid(db)
sqlite3_last_insert_rowid(w) == w.rowid

\* sqlite3_call(func, *args): w is the world after func returned w.rc
sqlite3_call(w) == sqlite3_rc_guard(w)

(* ------------------------------ cursor.py ------------------------------ *)
\* Optional[T]: <<>> is None, <<x>> is the value x.

NoneOpt == <<>>

Some(x) == <<x>>

\* The types bind_param has a branch for.
BindTypes == {"int", "float", "str", "bytes", "NoneType"}

\* What building the foreign call of value's branch raises, before the
\* library is entered: no argument types are declared for the library's
\* functions, so a Python float cannot be passed, and c_void_p(value) does
\* not take a bytes object.  A value of no listed type leaves rc unassigned,
\* and reading it raises.
BindRaises(value) ==
    CASE value.type = "float" -> "ArgumentError"
      [] value.type = "bytes" -> "TypeError"
      [] value.type \notin BindTypes -> "UnboundLocalError"
      [] OTHER -> "none"

\* What the sqlite3_bind_* call of value's branch stores in the statement:
\* sqlite3_bind_int takes a C int, the low 32 bits of the Python int;
\* sqlite3_bind_text takes len(value) bytes of the encoded text, the number
\* of its characters.
BoundValue(value) ==
    CASE value.type = "int" -> [tag |-> SQLITE_INTEGER, v |-> value.v]
      [] value.type = "float" -> [tag |-> SQLITE_FLOAT, v |-> value.v]
      [] value.type = "str" ->
            [tag |-> SQLITE_TEXT,
             bytes |-> SubSeq(encode(value.v), 1, Len(value.v))]
      [] value.type = "bytes" -> [tag |-> SQLITE_BLOB, bytes |-> value.v]
      [] OTHER -> SqlNull

\* bind_param(statement, index, value): the native bind chosen by the
\* value's type, then sqlite3_rc_guard(rc).
bind_param(w, index, value) ==
    IF w.exc # "none" THEN w
    ELSE IF BindRaises(value) # "none"
    THEN Raise(w, BindRaises(value), "")
    ELSE sqlite3_rc_guard(sqlite3_bind(w, w.cur.statement, index, BoundValue(value)))

\* get_column(statement, index): [exc, val]
get_column(w, h, index) ==
    LET column_type == sqlite3_column_type(w, h, index)
        c == ColumnValue(w, h, index)
    IN CASE column_type = SQLITE_INTEGER ->
              [exc |-> "none", val |-> [type |-> "int", v |-> c.v]]
         [] column_type = SQLITE_FLOAT ->
              \* sqlite3_column_double with the default result type int:
              \* what the integer result register holds, not the double
              [exc |-> "none",
               val |-> [type |-> "int", v |-> IF w.ub = "ok" THEN c.v ELSE 0]]
         [] column_type = SQLITE_TEXT ->
              [exc |-> decode(c.bytes).exc,
               val |-> [type |-> "str", v |-> decode(c.bytes).val]]
         [] column_type = SQLITE_NULL ->
              [exc |-> "none", val |-> None]
         [] OTHER -> [exc |-> "NotImplementedError", val |-> None]

\* tuple(get_column(statement, index) for index in range(data_count)): the
\* row is left in w.ret; reading through a finalized handle is a use after
\* free.
ReadRow(w, h, data_count) ==
    IF w.exc # "none" THEN w
    ELSE LET cols == [i \in 1..data_count |-> get_column(w, h, i - 1)]
             bad == {i \in 1..data_count : cols[i].exc # "none"}
             w1 == [w EXCEPT !.calls = @ \o [i \in 1..data_count |-> "column"]]
         IN IF data_count > 0 /\ h # 0 /\ ~IsLive(w, h)
            THEN IF w.ub = "crash"
                 THEN [w1 EXCEPT !.uaf = TRUE, !.crashed = TRUE, !.exc = "crash"]
                 ELSE [w1 EXCEPT !.uaf = TRUE,
                                 !.ret = [i \in 1..data_count |-> None]]
            ELSE IF bad # {}
                 THEN Raise(w1, cols[CHOOSE i \in bad : \A j \in bad : i <= j].exc, "")
                 ELSE [w1 EXCEPT !.ret = [i \in 1..data_count |-> cols[i].val]]

\* CursorIterator.__init__(statement, prev_step_rc)
CursorIterator(w, statement, prev_step_rc) ==
    [statement |-> statement, prev_step_rc |-> prev_step_rc,
     data_count |-> sqlite3_data_count(w, statement)]

\* cls(statement, prev_step_rc) at the end of exec_and_iter, w the world
\* after the guarded step: the new iterator is left in w.ret
NewIterator(w, statement) ==
    IF w.exc # "none" THEN w
    ELSE [w EXCEPT !.ret = CursorIterator(w, statement, w.rc)]

\* mutant of exec_and_iter: the iterator is made without the first step
exec_and_iter_unstepped(w, statement) ==
    IF w.exc # "none" THEN w
    ELSE NewIterator([w EXCEPT !.rc = SQLITE_ROW], statement)

\* CursorIterator.exec_and_iter(statement)
exec_and_iter(w, statement) ==
    IF w.exc # "none" THEN w
    ELSE NewIterator(sqlite3_call(sqlite3_step(w, statement)), statement)

\* the end of __next__, w the world after the guarded step: the new status
\* is stored and the row read before the step is returned
StoreStep(w, row) ==
    IF w.exc # "none" THEN w
    ELSE [w EXCEPT !.cur.iterator[1].prev_step_rc = w.rc, !.ret = row]

\* mutant of Advance: the statement is stepped twice for one row
AdvanceTwice(w) ==
    IF w.exc # "none" THEN w
    ELSE StoreStep(
             sqlite3_call(sqlite3_step(
                 sqlite3_call(sqlite3_step(w, w.cur.iterator[1].statement)),
                 w.cur.iterator[1].statement)),
             w.ret)

\* the step of __next__, w the world after the row (w.ret) was read
Advance(w) ==
    IF w.exc # "none" THEN w
    ELSE StoreStep(sqlite3_call(sqlite3_step(w, w.cur.iterator[1].statement)),
                   w.ret)

\* mutant of IterNext: exhaustion is tested against the wrong status
IterNextWrongStatus(w) ==
    IF w.exc # "none" THEN w
    ELSE IF w.cur.iterator[1].prev_step_rc = SQLITE_OK
    THEN Raise(w, "StopIteration", "")
    ELSE Advance(ReadRow(w, w.cur.iterator[1].statement,
                         w.cur.iterator[1].data_count))

\* CursorIterator.__next__ of the cursor's iterator: the row is left in
\* w.ret, exhaustion is the exception StopIteration.
IterNext(w) ==
    IF w.exc # "none" THEN w
    ELSE IF w.cur.iterator[1].prev_step_rc = SQLITE_DONE
    THEN Raise(w, "StopIteration", "")
    ELSE Advance(ReadRow(w, w.cur.iterator[1].statement,
                         w.cur.iterator[1].data_count))

\* self.__iterator = None
ClearIterator(w) ==
    IF w.exc # "none" THEN w ELSE [w EXCEPT !.cur.iterator = NoneOpt]

\* self.__statement = None, after the guarded finalize
ClearStatement(w) ==
    IF w.exc # "none" THEN w ELSE [w EXCEPT !.cur.statement = 0]

\* mutant of Finalize: the references are dropped and the handle is not
\* finalized
FinalizeLeaks(w) ==
    IF w.exc # "none" THEN w
    ELSE [w EXCEPT !.cur.iterator = NoneOpt, !.cur.statement = 0]

\* CursorExecutionLayer.__finalize
Finalize(w) ==
    IF w.exc # "none" THEN w
    ELSE IF w.cur.statement # 0
    THEN ClearStatement(
             sqlite3_call(sqlite3_finalize(ClearIterator(w), w.cur.statement)))
    ELSE ClearIterator(w)

\* the rest of __prepare, w the world after self.__finalize()
PrepareNew(w, text) ==
    IF w.exc # "none" THEN w
    ELSE sqlite3_call(sqlite3_prepare_v2(
             [w EXCEPT !.cur.operation = Some(text), !.cur.statement = 0],
             text))

\* CursorExecutionLayer.__prepare(statement)
Prepare(w, text) == PrepareNew(Finalize(w), text)

\* CursorExecutionLayer.__bind(params): enumerate(params, 1)
RECURSIVE BindFrom(_, _, _)
BindFrom(w, params, index) ==
    IF w.exc # "none" \/ index > Len(params) THEN w
    ELSE BindFrom(bind_param(w, index, params[index]), params, index + 1)

Bind(w, params) == BindFrom(w, params, 1)

\* mutant of update_description: the description of an earlier query is kept
\* when the operation is no query
update_description_keeps(w, statement, operation) ==
    IF w.exc # "none" \/ ~is_dql_opreation(operation).val THEN w
    ELSE [w EXCEPT !.cur.description = Some(
             [n \in 1..sqlite3_column_count(w, statement) |->
                 <<sqlite3_column_name(w, statement, n - 1),
                   None, None, None, None, None, None>>])]

\* DescriptionMixin._update_description(connection, statement, operation)
update_description(w, statement, operation) ==
    IF w.exc # "none" THEN w
    ELSE LET d == is_dql_opreation(operation)
             column_count == sqlite3_column_count(w, statement)
         IN IF d.exc # "none" THEN Raise(w, d.exc, "")
            ELSE IF ~d.val THEN [w EXCEPT !.cur.description = NoneOpt]
            ELSE [w EXCEPT
                    !.calls = @ \o <<"column_count">>
                                \o [n \in 1..column_count |-> "column_name"],
                    !.cur.description = Some(
                        [n \in 1..column_count |->
                            <<sqlite3_column_name(w, statement, n - 1),
                              None, None, None, None, None, None>>])]

\* mutant of update_lastrowid: the command is not looked at
update_lastrowid_always(w, statement, operation) ==
    IF w.exc # "none" THEN w
    ELSE [w EXCEPT !.cur.lastrowid = Some(sqlite3_last_insert_rowid(w))]

\* mutant of update_lastrowid: an execution that made no step stores none
update_lastrowid_own(w, statement, operation) ==
    IF w.exc # "none" THEN w
    ELSE LET c == get_operation_command(operation)
         IN IF c.exc # "none" THEN Raise(w, c.exc, "")
            ELSE IF c.val \notin {"INSERT", "REPLACE"} \/ \A i \in 1..Len(w.calls) : w.calls[i] # "step"
            THEN [w EXCEPT !.cur.lastrowid = NoneOpt]
            ELSE [w EXCEPT !.calls = Append(@, "last_insert_rowid"),
                           !.cur.lastrowid = Some(sqlite3_last_insert_rowid(w))]

\* LastrowidMixin._update_lastrowid(connection, statement, operation)
update_lastrowid(w, statement, operation) ==
    IF w.exc # "none" THEN w
    ELSE LET c == get_operation_command(operation)
         IN IF c.exc # "none" THEN Raise(w, c.exc, "")
            ELSE IF c.val \notin {"INSERT", "REPLACE"}
            THEN [w EXCEPT !.cur.lastrowid = NoneOpt]
            ELSE [w EXCEPT !.calls = Append(@, "last_insert_rowid"),
                           !.cur.lastrowid = Some(sqlite3_last_insert_rowid(w))]

\* hook(self.__connection, self.__statement, self.__operation): the call is
\* noted with its arguments and the number of native calls made before it
HookCalled(w, hook) ==
    IF w.exc # "none" THEN w
    ELSE [w EXCEPT !.hooks = Append(@,
             [hook |-> hook, statement |-> w.cur.statement,
              operation |-> w.cur.operation, after |-> Len(w.calls)])]

\* mutant of call_hooks: the hooks run in the reverse of registration order
call_hooks_reversed(w) ==
    IF w.exc # "none" THEN w
    ELSE update_description(
             HookCalled(
                 update_lastrowid(HookCalled(w, "lastrowid"),
                                  w.cur.statement, w.cur.operation[1]),
                 "description"),
             w.cur.statement, w.cur.operation[1])

\* CursorExecutionLayer.__call_hooks: the hooks Cursor.__init__ registered,
\* in registration order
call_hooks(w) ==
    IF w.exc # "none" THEN w
    ELSE update_lastrowid(
             HookCalled(
                 update_description(HookCalled(w, "description"),
                                    w.cur.statement, w.cur.operation[1]),
                 "lastrowid"),
             w.cur.statement, w.cur.operation[1])

\* self.__iterator = CursorIterator.exec_and_iter(self.__statement)
ExecAndStore(w) ==
    IF w.exc # "none" THEN w
    ELSE [w EXCEPT !.cur.iterator = Some(w.ret)]

ExecAndIter(w) ==
    IF w.exc # "none" THEN w
    ELSE ExecAndStore(exec_and_iter(w, w.cur.statement))

\* a method that returns None
ReturnNone(w) == [w EXCEPT !.ret = NoneOpt]

\* CursorExecutionLayer.execute(operation, params)
execute(w, operation, params) ==
    ReturnNone(call_hooks(ExecAndIter(Bind(Prepare(w, operation), params))))

\* sqlite3_call(libsqlite3.sqlite3_step, self.__statement)
StepStatement(w) ==
    IF w.exc # "none" THEN w
    ELSE sqlite3_call(sqlite3_step(w, w.cur.statement))

\* mutant of ResetStatement: the statement is not reset between tuples
ResetStatementSkipped(w) == w

\* sqlite3_call(libsqlite3.sqlite3_reset, self.__statement)
ResetStatement(w) ==
    IF w.exc # "none" THEN w
    ELSE sqlite3_call(sqlite3_reset(w, w.cur.statement))

\* executemany's loop over seq_of_params, from position k
RECURSIVE ManyFrom(_, _, _)
ManyFrom(w, seq_of_params, k) ==
    IF w.exc # "none" \/ k > Len(seq_of_params) THEN w
    ELSE ManyFrom(ResetStatement(StepStatement(Bind(w, seq_of_params[k]))),
                  seq_of_params, k + 1)

\* mutant of executemany: the statement is prepared before the text is
\* looked at
executemany_prepares_first(w, operation, seq_of_params) ==
    LET d == is_dml_operation(operation)
    IN IF d.exc # "none"
       THEN Raise(Prepare(w, operation), d.exc, "list index out of range")
       ELSE IF ~d.val
       THEN Raise(Prepare(w, operation), "ProgrammingError",
                  "executemany() can only execute DML statements.")
       ELSE ReturnNone(call_hooks(ClearIterator(
                ManyFrom(Prepare(w, operation), seq_of_params, 1))))

\* CursorExecutionLayer.executemany(operation, seq_of_params)
executemany(w, operation, seq_of_params) ==
    LET d == is_dml_operation(operation)
    IN IF d.exc # "none" THEN Raise(w, d.exc, "list index out of range")
       ELSE IF ~d.val
       THEN Raise(w, "ProgrammingError",
                  "executemany() can only execute DML statements.")
       ELSE ReturnNone(call_hooks(ClearIterator(
                ManyFrom(Prepare(w, operation), seq_of_params, 1))))

\* next(it) for it = CursorExecutionLayer.__iter__(): the cursor's iterator,
\* or iter([]) when there is none
NextOfIter(w) ==
    IF w.exc # "none" THEN w
    ELSE IF w.cur.iterator = NoneOpt THEN Raise(w, "StopIteration", "")
    ELSE IterNext(w)

\* fetchone's try/except around next(iter(self)), w the world after next
FetchoneResult(w) ==
    IF w.exc = "StopIteration"
    THEN [w EXCEPT !.exc = "none", !.msg = "", !.ret = NoneOpt]
    ELSE IF w.exc # "none" THEN [w EXCEPT !.ret = NoneOpt]
    ELSE [w EXCEPT !.ret = Some(w.ret)]

\* CursorFetchLayer.fetchone
fetchone(w) == FetchoneResult(NextOfIter(w))

\* list(itertools.islice(it, stop)): up to stop items (all of them when
\* limited is FALSE), ended early by StopIteration; acc is the list so far,
\* and in TakeMore w is the world after one more next(it)
RECURSIVE Take(_, _, _, _)
RECURSIVE TakeMore(_, _, _, _)
Take(w, limited, stop, acc) ==
    IF limited /\ stop = 0 THEN [w EXCEPT !.ret = acc]
    ELSE TakeMore(NextOfIter(w), limited, stop, acc)

TakeMore(w, limited, stop, acc) ==
    IF w.exc = "StopIteration"
    THEN [w EXCEPT !.exc = "none", !.msg = "", !.ret = acc]
    ELSE IF w.exc # "none" THEN [w EXCEPT !.ret = NoneOpt]
    ELSE Take(w, limited, IF limited THEN stop - 1 ELSE stop, Append(acc, w.ret))

\* bool(value) of a Python value
Truthy(value) ==
    ~ (value.type = "NoneType" \/ (value.type = "int" /\ value.v = 0))

\* CursorFetchLayer.fetchmany(size)
fetchmany(w, size) ==
    LET stop == IF Truthy(size) THEN size.v ELSE w.cur.arraysize
    IN IF stop < 0
       THEN Raise(w, "ValueError", "Stop argument for islice()")
       ELSE Take(w, TRUE, stop, <<>>)

\* CursorFetchLayer.fetchall
fetchall(w) == Take(w, FALSE, 0, <<>>)

\* the arraysize setter
set_arraysize(w, value) ==
    IF w.exc # "none" THEN w
    ELSE IF value.type # "int"
    THEN Raise(w, "TypeError", "Attribute arraysize must be int.")
    ELSE IF value.v < 1
    THEN Raise(w, "ValueError", "Attribute arraysize must be 1 or more.")
    ELSE [w EXCEPT !.cur.arraysize = value.v, !.ret = NoneOpt]

\* Cursor.__init__(connection): the class attributes of the three layers
Cursor(id) ==
    [id |-> id, statement |-> 0, operation |-> NoneOpt, iterator |-> NoneOpt,
     arraysize |-> 1, description |-> NoneOpt, lastrowid |-> NoneOpt]

\* CursorExecutionLayer.close(operation): called as close(*args)
cursor_close(w, args) ==
    IF Len(args) # 1
    THEN Raise(w, "TypeError", "close() missing 1 required positional argument")
    ELSE [w EXCEPT !.ret = NoneOpt]

(* --------------------------- connection.py ----------------------------- *)

ClosedMsg == "Cannot operate on a closed database."

\* mutant of not_closed_guard: the closed flag is not looked at
not_closed_guard_off(w) == w

\* Connection.__not_closed_guard
not_closed_guard(w) ==
    IF w.exc # "none" THEN w
    ELSE IF w.closed THEN Raise(w, "ProgrammingError", ClosedMsg)
    ELSE w

\* Cursor(self) in Connection.cursor: the new Cursor is left in w.cur
MakeCursor(w, id) ==
    IF w.exc # "none" THEN w ELSE [w EXCEPT !.cur = Cursor(id)]

\* Connection.cursor
conn_cursor(w, id) == MakeCursor(not_closed_guard(w), id)

\* The name of the cursor that __init__, commit() or rollback() makes for
\* itself: the negated number of the handle its statement will get.
OwnCursorId(w) == 0 - (Len(w.stmts) + 1)

\* mutant of commit: a new transaction is begun after the COMMIT
commit_begins(w) ==
    execute(execute(conn_cursor(not_closed_guard(w), OwnCursorId(w)),
                    T_COMMIT, <<>>),
            T_BEGIN, <<>>)

\* Connection.commit
commit(w) ==
    execute(conn_cursor(not_closed_guard(w), OwnCursorId(w)), T_COMMIT, <<>>)

\* Connection.rollback
rollback(w) ==
    execute(conn_cursor(not_closed_guard(w), OwnCursorId(w)), T_ROLLBACK, <<>>)

\* self.closed = True, after self.rollback()
MarkClosed(w) ==
    IF w.exc # "none" THEN w ELSE [w EXCEPT !.closed = TRUE]

\* Connection.close
close(w) == MarkClosed(rollback(not_closed_guard(w)))

\* The world Connection.__init__ starts from: sqlite3_open of a database
\* file that holds the empty table t.
Opened ==
    [closed |-> FALSE, stmts |-> <<>>, table |-> <<>>, saved |-> <<>>,
     txn |-> FALSE, rowid |-> 0, crashed |-> FALSE, cur |-> Cursor(0),
     calls |-> <<"open">>, hooks |-> <<>>, uaf |-> FALSE, exc |-> "none",
     msg |-> "", rc |-> SQLITE_OK, ret |-> NoneOpt, ub |-> "misuse"]

\* Connection.__init__(filename)
connect ==
    execute(conn_cursor(sqlite3_rc_guard(Opened), OwnCursorId(Opened)),
            T_BEGIN, <<>>)

(* ------------------------------ state ---------------------------------- *)

VARIABLES
    closed,     \* Connection.closed
    cursors,    \* the Cursor objects the caller holds, in creation order
    stmts,      \* engine: the statements by handle (1, 2, ...)
    table,      \* engine: column x of the rows of t, in rowid order
    saved,      \* engine: the table at the start of the open transaction
    txn,        \* engine: a transaction is open
    rowid,      \* engine: sqlite3_last_insert_rowid
    crashed,    \* the process died in a native call
    fetched,    \* history: per cursor, rows returned since its last execute
    queried,    \* history: cursors whose last execute[many] was an execute
                \* that returned normally
    stepped,    \* history: per cursor, native steps made for it since its
                \* last execute[many] began
    held,       \* the caller's iterator per cursor, from iter(cursor)
    inserted,   \* history: the parameter of the last INSERT that execute
                \* completed, if any
    closeAsked, \* history: cursors on which close() was called
    lastOp      \* history: the last call of the caller and its outcome

vars == <<closed, cursors, stmts, table, saved, txn, rowid, crashed,
          fetched, queried, stepped, held, inserted, closeAsked, lastOp>>

\* the world a method of the connection, or of cursor record cur, starts in
World(cur, ub) ==
    [closed |-> closed, stmts |-> stmts, table |-> table, saved |-> saved,
     txn |-> txn, rowid |-> rowid, crashed |-> FALSE, cur |-> cur,
     calls |-> <<>>, hooks |-> <<>>, uaf |-> FALSE, exc |-> "none",
     msg |-> "", rc |-> SQLITE_OK, ret |-> NoneOpt, ub |-> ub]

\* what the caller sees of a finished call
Outcome(w, op, c, arg) ==
    [op |-> op, cur |-> c, arg |-> arg, exc |-> w.exc, msg |-> w.msg,
     ret |-> w.ret, calls |-> w.calls, hooks |-> w.hooks, uaf |-> w.uaf]

\* the native steps among calls
Steps(calls) == Len(SelectSeq(calls, LAMBDA f : f = "step"))

\* The iterator object iter([]) returns: nothing to yield, no statement.
EmptyIter == [statement |-> 0, prev_step_rc |-> SQLITE_DONE, data_count |-> 0]

\* What the caller holds after it = iter(cursor): the cursor's own iterator
\* object while the cursor still refers to it (current), and the object it
\* (with its own fields) once the cursor dropped it.
Current == [current |-> TRUE, it |-> EmptyIter]

Detached(it) == [current |-> FALSE, it |-> it]

\* the engine and the connection after a call
Landed(w, op, c, arg) ==
    /\ closed' = w.closed
    /\ stmts' = w.stmts
    /\ table' = w.table
    /\ saved' = w.saved
    /\ txn' = w.txn
    /\ rowid' = w.rowid
    /\ crashed' = w.crashed
    /\ lastOp' = Outcome(w, op, c, arg)

\* the state after a method of cursor c ended in world w; the rows a fetch
\* returned are w.ret
CursorLanded(w, op, c, arg) ==
    /\ cursors' = [cursors EXCEPT ![c] = w.cur]
    /\ fetched' = [fetched EXCEPT ![c] =
                      IF op \in {"execute", "executemany"} THEN <<>>
                      ELSE IF op = "cursor.close" THEN @
                      ELSE @ \o w.ret]
    /\ queried' = IF op = "execute" /\ w.exc = "none" THEN queried \cup {c}
                  ELSE IF op \in {"execute", "executemany"} THEN queried \ {c}
                  ELSE queried
    /\ stepped' = [stepped EXCEPT ![c] =
                      IF op \in {"execute", "executemany"} THEN Steps(w.calls)
                      ELSE @ + Steps(w.calls)]
    /\ held' = [held EXCEPT ![c] =
                   IF @ # NoneOpt /\ @[1].current
                      /\ w.cur.iterator # cursors[c].iterator
                   THEN Some(Detached(cursors[c].iterator[1])) ELSE @]
    /\ inserted' = IF /\ op = "execute"
                       /\ w.exc = "none"
                       /\ EngineParse(arg[1]).kind = "INSERT"
                       /\ arg[2] # <<>>
                    THEN Some(arg[2][1]) ELSE inserted
    /\ closeAsked' = IF op = "cursor.close" /\ arg = <<>>
                     THEN closeAsked \cup {c} ELSE closeAsked
    /\ Landed(w, op, c, arg)

\* the state after a method of the connection ended in world w
ConnLanded(w, op) ==
    /\ cursors' = IF op = "cursor" /\ w.exc = "none"
                  THEN Append(cursors, w.cur) ELSE cursors
    /\ fetched' = IF op = "cursor" /\ w.exc = "none"
                  THEN Append(fetched, <<>>) ELSE fetched
    /\ queried' = queried
    /\ stepped' = IF op = "cursor" /\ w.exc = "none"
                  THEN Append(stepped, 0) ELSE stepped
    /\ held' = IF op = "cursor" /\ w.exc = "none"
               THEN Append(held, NoneOpt) ELSE held
    /\ inserted' = inserted
    /\ closeAsked' = closeAsked
    /\ Landed(w, op, 0, <<>>)

\* the state Connection.__init__ leaves, w its world
Constructed(w) ==
    /\ closed = w.closed
    /\ cursors = <<>>
    /\ stmts = w.stmts
    /\ table = w.table
    /\ saved = w.saved
    /\ txn = w.txn
    /\ rowid = w.rowid
    /\ crashed = w.crashed
    /\ fetched = <<>>
    /\ queried = {}
    /\ stepped = <<>>
    /\ held = <<>>
    /\ inserted = NoneOpt
    /\ closeAsked = {}
    /\ lastOp = Outcome(w, "connect", 0, <<>>)

Init == Constructed(connect)

(* ----------------------------- the calls ------------------------------- *)
\* what the callers pass

ExecParams == {<<>>, <<PyInt(1)>>, <<PyInt(2)>>, <<None>>, <<PyInt(1), PyInt(2)>>}

ManyParams ==
    {<<>>, <<<<PyInt(1)>>>>, <<<<PyInt(1)>>, <<PyInt(2)>>>>,
     <<<<PyInt(1)>>, <<None>>>>, <<<<None>>, <<PyInt(1)>>>>}

Sizes == {None, PyInt(0), PyInt(1), PyInt(2)}

CloseArgs == {<<>>, <<T_SELECT>>}

ArraySizes == {PyInt(-1), PyInt(2), PyFloat(123)}

\* The outcomes to consider for undefined behaviour in a call on cursor c:
\* they differ only when the cursor holds a finalized handle.
UBFor(c) ==
    IF cursors[c].statement # 0 /\ ~stmts[cursors[c].statement].live
    THEN UB ELSE {"misuse"}

\* the model's room: handles left, and rows left for n inserts by text
Room(text, n) ==
    /\ Len(stmts) < MaxStmts
    /\ EngineParse(text).kind = "INSERT" => Len(table) + n <= MaxRows

\* connection.cursor()
ConnCursor ==
    /\ ~crashed
    /\ Len(cursors) < MaxCursors
    /\ ConnLanded(conn_cursor(World(Cursor(0), "misuse"), Len(cursors) + 1),
                  "cursor")

\* connection.commit()
ConnCommit ==
    /\ ~crashed
    /\ closed \/ Len(stmts) < MaxStmts
    /\ ConnLanded(commit(World(Cursor(0), "misuse")), "commit")

\* connection.rollback()
ConnRollback ==
    /\ ~crashed
    /\ closed \/ Len(stmts) < MaxStmts
    /\ ConnLanded(rollback(World(Cursor(0), "misuse")), "rollback")

\* connection.close()
ConnClose ==
    /\ ~crashed
    /\ closed \/ Len(stmts) < MaxStmts
    /\ ConnLanded(close(World(Cursor(0), "misuse")), "close")

\* cursor.execute(text, params)
CurExecute(c, text, params) ==
    /\ ~crashed
    /\ Room(text, 1)
    /\ \E ub \in UBFor(c) :
         CursorLanded(execute(World(cursors[c], ub), text, params),
                      "execute", c, <<text, params>>)

\* cursor.executemany(text, seq_of_params)
CurExecutemany(c, text, seq_of_params) ==
    /\ ~crashed
    /\ Room(text, Len(seq_of_params))
    /\ \E ub \in UBFor(c) :
         CursorLanded(executemany(World(cursors[c], ub), text, seq_of_params),
                      "executemany", c, <<text, seq_of_params>>)

\* cursor.fetchone()
CurFetchone(c) ==
    /\ ~crashed
    /\ \E ub \in UBFor(c) :
         CursorLanded(fetchone(World(cursors[c], ub)), "fetchone", c, <<>>)

\* cursor.fetchmany(size)
CurFetchmany(c, size) ==
    /\ ~crashed
    /\ \E ub \in UBFor(c) :
         CursorLanded(fetchmany(World(cursors[c], ub), size), "fetchmany", c, size)

\* cursor.fetchall()
CurFetchall(c) ==
    /\ ~crashed
    /\ \E ub \in UBFor(c) :
         CursorLanded(fetchall(World(cursors[c], ub)), "fetchall", c, <<>>)

\* cursor.arraysize = value
CurSetArraysize(c, value) ==
    /\ ~crashed
    /\ CursorLanded(set_arraysize(World(cursors[c], "misuse"), value),
                    "arraysize", c, value)

\* cursor.close(*args)
CurClose(c, args) ==
    /\ ~crashed
    /\ CursorLanded(cursor_close(World(cursors[c], "misuse"), args),
                    "cursor.close", c, args)

Next ==
    \/ ConnCursor
    \/ ConnCommit
    \/ ConnRollback
    \/ ConnClose
    \/ \E c \in 1..Len(cursors), text \in Texts, params \in ExecParams :
          CurExecute(c, text, params)
    \/ \E c \in 1..Len(cursors), text \in Texts, seq \in ManyParams :
          CurExecutemany(c, text, seq)
    \/ \E c \in 1..Len(cursors) : CurFetchone(c)
    \/ \E c \in 1..Len(cursors), size \in Sizes : CurFetchmany(c, size)
    \/ \E c \in 1..Len(cursors) : CurFetchall(c)
    \/ \E c \in 1..Len(cursors), args \in CloseArgs : CurClose(c, args)
    \/ \E c \in 1..Len(cursors), value \in ArraySizes : CurSetArraysize(c, value)

Spec == Init /\ [][Next]_vars

\* the shape of the state
TypeOK ==
    /\ closed \in BOOLEAN
    /\ txn \in BOOLEAN
    /\ crashed \in BOOLEAN
    /\ Len(cursors) <= MaxCursors
    /\ Len(stmts) <= MaxStmts
    /\ Len(table) <= MaxRows
    /\ \A c \in 1..Len(cursors) :
          /\ cursors[c].id = c
          /\ cursors[c].statement \in 0..Len(stmts)
          /\ cursors[c].arraysize >= 1

(* ------------------------------ claims --------------------------------- *)

ConnOps == {"cursor", "commit", "rollback", "close"}

CursorOps == {"execute", "executemany", "fetchone", "fetchmany", "fetchall"}

FetchOps == {"fetchone", "fetchmany", "fetchall"}

Range(seq) == {seq[i] : i \in 1..Len(seq)}

Min(a, b) == IF a < b THEN a ELSE b

\* the cursor's iteration has seen the status "done"
Exhausted(c) ==
    /\ cursors[c].iterator # NoneOpt
    /\ cursors[c].iterator[1].prev_step_rc = SQLITE_DONE

\* the rows of the cursor's iteration that no fetch has returned yet
Remaining(c) ==
    IF cursors[c].iterator = NoneOpt \/ Exhausted(c) THEN 0
    ELSE LET st == stmts[cursors[c].iterator[1].statement]
         IN Len(st.rows) - st.pos + 1

\* the Python value an engine value is expected to come back as
Expected(ev) ==
    IF ev.tag = SQLITE_NULL THEN None ELSE [type |-> "int", v |-> ev.v]

\* the rows of an engine result as the caller is expected to see them
ExpectedRows(rows) ==
    [i \in 1..Len(rows) |-> [j \in 1..Len(rows[i]) |-> Expected(rows[i][j])]]

\* C1: once close() has completed, closed stays true, and cursor(), commit(),
\* rollback() and close() each raise ProgrammingError "Cannot operate on a
\* closed database." without creating a cursor and without a native call.
C1_ClosedConnectionRejects ==
    [][closed =>
          /\ closed'
          /\ lastOp'.op \in ConnOps =>
                /\ lastOp'.exc = "ProgrammingError"
                /\ lastOp'.msg = ClosedMsg
                /\ lastOp'.calls = <<>>
                /\ cursors' = cursors
                /\ stmts' = stmts]_vars

\* a call of commit() on the closed connection was rejected
C1_Witness ==
    /\ closed
    /\ lastOp.op = "commit"
    /\ lastOp.exc = "ProgrammingError"

\* C2: on a cursor made before its connection was closed, execute,
\* executemany, fetchone, fetchmany and fetchall raise ProgrammingError for
\* the closed condition once the connection is closed, with no native call.
C2_CursorOfClosedConnectionRejects ==
    (closed /\ lastOp.op \in CursorOps) =>
        /\ lastOp.exc = "ProgrammingError"
        /\ lastOp.msg = ClosedMsg
        /\ lastOp.calls = <<>>

\* C3: close() of a cursor with no arguments succeeds, and every public
\* operation of that cursor afterwards raises ProgrammingError "Cannot
\* operate on a closed database."
C3_CursorCloseThenRejects ==
    /\ (lastOp.op = "cursor.close" /\ lastOp.arg = <<>>) => lastOp.exc = "none"
    /\ (lastOp.op \in CursorOps /\ lastOp.cur \in closeAsked) =>
          /\ lastOp.exc = "ProgrammingError"
          /\ lastOp.msg = ClosedMsg

\* C4: a cursor owns at most one live statement, the one it refers to:
\* execute and executemany finalize the statement held before preparing.
C4_OneLiveStatementPerCursor ==
    /\ \A h1, h2 \in 1..Len(stmts) :
          (stmts[h1].live /\ stmts[h2].live /\ stmts[h1].owner = stmts[h2].owner)
             => h1 = h2
    /\ \A c \in 1..Len(cursors), h \in 1..Len(stmts) :
          (stmts[h].live /\ stmts[h].owner = c) => cursors[c].statement = h

\* a cursor holds its second statement, the first one finalized
C4_Witness ==
    /\ Len(stmts) = 3
    /\ ~stmts[2].live
    /\ stmts[3].live
    /\ stmts[3].owner = 1
    /\ cursors[1].statement = 3

\* C5: a handle is passed to the native finalize at most once: once finalize
\* was called the cursor's reference is cleared, whatever finalize returned,
\* so no native call is made on a finalized handle.
C5_FinalizedAtMostOnce ==
    /\ \A c \in 1..Len(cursors) :
          cursors[c].statement # 0 => stmts[cursors[c].statement].live
    /\ ~lastOp.uaf

\* C6: after an execute or executemany on an open cursor of an open
\* connection failed with a database error, the next execute of a valid
\* statement on that cursor succeeds and its rows can be fetched.
C6_ErrorsRecoverable ==
    [][(/\ lastOp.op \in {"execute", "executemany"}
        /\ lastOp.exc = "DatabaseError"
        /\ ~closed
        /\ lastOp'.op = "execute"
        /\ lastOp'.cur = lastOp.cur
        /\ lastOp'.arg = <<T_SELECT, <<>>>>)
       => /\ lastOp'.exc = "none"
          /\ cursors'[lastOp.cur].iterator # NoneOpt]_vars

\* C7: once the last step of the cursor's statement returned "done", every
\* fetch returns none or an empty list, never raises and steps no more.
C7_ExhaustedStaysExhausted ==
    [][\A c \in 1..Len(cursors) :
          (Exhausted(c) /\ lastOp'.op \in FetchOps /\ lastOp'.cur = c)
             => /\ lastOp'.exc = "none"
                /\ lastOp'.ret = <<>>
                /\ "step" \notin Range(lastOp'.calls)
                /\ stmts' = stmts
                /\ Exhausted(c)']_vars

\* fetchone returned none after both rows of a result were fetched
C7_Witness ==
    \E c \in 1..Len(cursors) :
       /\ Exhausted(c)
       /\ Len(fetched[c]) = 2
       /\ lastOp.op = "fetchone"
       /\ lastOp.exc = "none"
       /\ lastOp.ret = NoneOpt

\* C8: the rows the fetches returned since the execute of a query are, in
\* order, a prefix of the engine's result, with none skipped, repeated or
\* reordered, and fetchall returns all the rows not yet returned.
C8_FetchedIsPrefix ==
    \A c \in queried :
       cursors[c].iterator # NoneOpt =>
          LET all == ExpectedRows(stmts[cursors[c].iterator[1].statement].rows)
              n == Len(fetched[c])
          IN /\ n <= Len(all)
             /\ fetched[c] = SubSeq(all, 1, n)
             /\ n = Len(all) - Remaining(c)
             /\ (lastOp.op = "fetchall" /\ lastOp.cur = c /\ lastOp.exc = "none")
                   => /\ fetched[c] = all
                      /\ lastOp.ret = SubSeq(all, n - Len(lastOp.ret) + 1, n)

\* two different rows were fetched, the second one by fetchall
C8_Witness ==
    \E c \in queried :
       /\ cursors[c].iterator # NoneOpt
       /\ fetched[c] = << <<PyInt(1), PyInt(1)>>, <<PyInt(2), PyInt(2)>> >>
       /\ lastOp.op = "fetchall"
       /\ lastOp.ret = << <<PyInt(2), PyInt(2)>> >>

\* C9: fetchmany(size) with size >= 0 returns exactly min(size, remaining
\* rows) rows, fetchmany() uses arraysize for size, and it never raises.
C9_FetchmanyCount ==
    [][\A c \in 1..Len(cursors) :
          (lastOp'.op = "fetchmany" /\ lastOp'.cur = c)
             => /\ lastOp'.exc = "none"
                /\ Len(lastOp'.ret) =
                      Min(IF lastOp'.arg = None THEN cursors[c].arraysize
                          ELSE lastOp'.arg.v,
                          Remaining(c))]_vars

\* the claim's words for "classified as Data-Manipulation"
ClaimedDML(text) ==
    /\ split(text) # <<>>
    /\ upper(Head(split(text))) \in
          {"INSERT", "DELETE", "UPDATE", "CALL", "LOCK", "EXPLAIN_CALL"}

\* C10: executemany raises ProgrammingError "executemany() can only execute
\* DML statements." for every text not classified Data-Manipulation, the
\* empty and the blank text included; when it succeeds nothing is to fetch.
C10_ExecutemanyGate ==
    lastOp.op = "executemany" =>
       /\ ~ClaimedDML(lastOp.arg[1]) =>
             /\ lastOp.exc = "ProgrammingError"
             /\ lastOp.msg = "executemany() can only execute DML statements."
       /\ (ClaimedDML(lastOp.arg[1]) /\ lastOp.exc = "none") =>
             cursors[lastOp.cur].iterator = NoneOpt

\* the command of a text: its first whitespace-delimited token, upper-cased
Command(text) == IF split(text) = <<>> THEN "" ELSE upper(Head(split(text)))

\* an execute or executemany of cursor c that returned normally is the last
\* call
Executed(c) ==
    /\ lastOp.op \in {"execute", "executemany"}
    /\ lastOp.cur = c
    /\ lastOp.exc = "none"

\* the description record of a column
ColumnRecord(name) == <<name, None, None, None, None, None, None>>

\* the result columns of the query form the callers use, in column order
SelectColumns == <<"rowid", "x">>

\* C11: description is none on a new cursor; after a successful execute
\* whose command is SELECT it holds one 7-element record per result column,
\* in column order, the name first and six nulls; after a successful execute
\* or executemany of any other command it is none.
C11_Description ==
    /\ (lastOp.op = "cursor" /\ lastOp.exc = "none")
          => cursors[Len(cursors)].description = NoneOpt
    /\ \A c \in 1..Len(cursors) :
          Executed(c) =>
             IF lastOp.op = "execute" /\ Command(lastOp.arg[1]) = "SELECT"
             THEN cursors[c].description =
                     Some([n \in 1..Len(SelectColumns) |->
                              ColumnRecord(SelectColumns[n])])
             ELSE cursors[c].description = NoneOpt

\* a successful DELETE on a cursor whose previous statement, a query, was
\* finalized by it: the description of the query is gone
C11_Witness ==
    /\ Executed(1)
    /\ Command(lastOp.arg[1]) = "DELETE"
    /\ Len(stmts) = 3
    /\ ~stmts[2].live
    /\ cursors[1].description = NoneOpt
    /\ "finalize" \in Range(lastOp.calls)

\* C12: lastrowid is none on a new cursor; after a successful execute whose
\* command is INSERT or REPLACE it is the row id the engine gave the row that
\* statement inserted; after a successful execution of any other command it
\* is none.
C12_Lastrowid ==
    /\ (lastOp.op = "cursor" /\ lastOp.exc = "none")
          => cursors[Len(cursors)].lastrowid = NoneOpt
    /\ \A c \in 1..Len(cursors) :
          Executed(c) =>
             /\ (lastOp.op = "execute"
                 /\ Command(lastOp.arg[1]) \in {"INSERT", "REPLACE"})
                   => /\ table # <<>>
                      /\ table[Len(table)] = BoundValue(lastOp.arg[2][1])
                      /\ cursors[c].lastrowid = Some(Len(table))
             /\ Command(lastOp.arg[1]) \notin {"INSERT", "REPLACE"}
                   => cursors[c].lastrowid = NoneOpt

\* the second row went in by REPLACE and lastrowid is its row id, 2
C12_Witness ==
    /\ Executed(1)
    /\ lastOp.arg[1] = T_REPLACE
    /\ Len(table) = 2
    /\ cursors[1].lastrowid = Some(2)

\* C13: arraysize is an integer >= 1 in every state: assigning a value that
\* is no integer, or an integer below 1, raises ProgrammingError and leaves
\* arraysize as it was; assigning an integer >= 1 stores it.
C13_ArraysizeSetter ==
    [][\A c \in 1..Len(cursors) :
          /\ cursors'[c].arraysize >= 1
          /\ (lastOp'.op = "arraysize" /\ lastOp'.cur = c) =>
                IF lastOp'.arg.type = "int" /\ lastOp'.arg.v >= 1
                THEN /\ lastOp'.exc = "none"
                     /\ cursors'[c].arraysize = lastOp'.arg.v
                ELSE /\ lastOp'.exc = "ProgrammingError"
                     /\ cursors'[c].arraysize = cursors[c].arraysize]_vars

\* The callers of C14: every call of cursor(), commit(), rollback(), execute,
\* executemany and fetchone returns normally, and close() is called at any
\* time.
SuccessfulCall ==
    /\ \/ ConnCursor
       \/ ConnCommit
       \/ ConnRollback
       \/ \E c \in 1..Len(cursors), text \in Texts, params \in ExecParams :
             CurExecute(c, text, params)
       \/ \E c \in 1..Len(cursors), text \in Texts, seq \in ManyParams :
             CurExecutemany(c, text, seq)
       \/ \E c \in 1..Len(cursors) : CurFetchone(c)
    /\ lastOp'.exc = "none"

NextSuccessful == SuccessfulCall \/ ConnClose

SpecSuccessful == Init /\ [][NextSuccessful]_vars

\* C14: close() on an open connection, after any sequence of successful
\* commit(), rollback(), cursor() and execute calls, returns with closed true.
C14_CloseCloses ==
    [][(~closed /\ lastOp'.op = "close")
          => (lastOp'.exc = "none" /\ closed')]_vars

\* C15: when an execute or executemany raises, the statement the cursor held
\* before the call has been finalized and the cursor has nothing to fetch:
\* the fetches that follow return none or an empty list.
C15_FailedExecuteLeavesNothing ==
    [][\A c \in 1..Len(cursors) :
          /\ (/\ lastOp'.op \in {"execute", "executemany"}
              /\ lastOp'.cur = c
              /\ lastOp'.exc \notin {"none", "crash"})
                => /\ cursors'[c].iterator = NoneOpt
                   /\ \A h \in 1..Len(stmts) :
                         (h = cursors[c].statement /\ stmts[h].live)
                            => ~stmts'[h].live
          /\ (/\ lastOp.op \in {"execute", "executemany"}
              /\ lastOp.cur = c
              /\ lastOp.exc \notin {"none", "crash"}
              /\ lastOp'.op \in FetchOps
              /\ lastOp'.cur = c)
                => (lastOp'.exc = "none" /\ lastOp'.ret = <<>>)]_vars

(* ---------------------- the value codec alone -------------------------- *)
\* Scalars of the kinds bind_param lists, bound as the parameter of an
\* INSERT: 1, -1, 2**32 + 5, 1.5, "hi", "é" and b"\x01\x02".  (None is
\* among ExecParams; column x of t does not take a NULL.)
CodecValues ==
    {PyInt(1), PyInt(-1), PyBig(1, 5), PyFloat(15), PyStr(<<104, 105>>),
     PyStr(<<233>>), PyBytes(<<1, 2>>)}

\* The calls of a round trip: insert one value, select, fetch row by row.
NextCodec ==
    \/ ConnCursor
    \/ \E c \in 1..Len(cursors), value \in CodecValues :
          CurExecute(c, T_INSERT, <<value>>)
    \/ \E c \in 1..Len(cursors) : CurExecute(c, T_SELECT, <<>>)
    \/ \E c \in 1..Len(cursors) : CurFetchone(c)

SpecCodec == Init /\ [][NextCodec]_vars

\* C16: binding a scalar of a supported kind as the parameter of an INSERT
\* does not raise, and the row of that INSERT, read back by a SELECT and a
\* fetch, holds a value equal to the one bound.
C16_CodecRoundTrip ==
    /\ (/\ lastOp.op = "execute"
        /\ lastOp.arg[1] = T_INSERT
        /\ lastOp.arg[2] \in {<<value>> : value \in CodecValues})
          => lastOp.exc = "none"
    /\ (lastOp.op = "fetchone" /\ inserted # NoneOpt)
          => /\ lastOp.exc = "none"
             /\ \A i \in 1..Len(lastOp.ret) :
                   lastOp.ret[i][1] = PyInt(Len(table))
                      => lastOp.ret[i][2] = inserted[1]

(* ------------------- iterators the caller holds ------------------------ *)
\* Connection.__init__(filename) on a database file whose table t already
\* holds rows
connectTo(rows) ==
    execute(conn_cursor(sqlite3_rc_guard([Opened EXCEPT !.table = rows]),
                        OwnCursorId(Opened)),
            T_BEGIN, <<>>)

\* the tables of the database files opened
StoredTables == {<<>>, <<[tag |-> SQLITE_INTEGER, v |-> 1]>>}

InitIter == \E rows \in StoredTables : Constructed(connectTo(rows))

\* next(it), as the caller sees it: the row, or the exception
NextResult(w) ==
    IF w.exc # "none" THEN [w EXCEPT !.ret = NoneOpt]
    ELSE [w EXCEPT !.ret = Some(w.ret)]

\* it = iter(cursor): CursorExecutionLayer.__iter__ hands out the cursor's
\* own iterator object, or iter([]) when it has none
CurIter(c) ==
    /\ ~crashed
    /\ held' = [held EXCEPT ![c] =
                   IF cursors[c].iterator = NoneOpt
                   THEN Some(Detached(EmptyIter)) ELSE Some(Current)]
    /\ lastOp' = Outcome(World(cursors[c], "misuse"), "iter", c, <<>>)
    /\ UNCHANGED <<closed, cursors, stmts, table, saved, txn, rowid, crashed,
                   fetched, queried, stepped, inserted, closeAsked>>

\* next(it) on the iterator the caller holds, while it is the cursor's own
HeldNextCurrent(c) ==
    /\ ~crashed
    /\ held[c] # NoneOpt
    /\ held[c][1].current
    /\ \E ub \in UBFor(c) :
         CursorLanded(NextResult(IterNext(World(cursors[c], ub))),
                      "next", c, <<>>)

\* next(it) on an iterator object the cursor has dropped: the object works
\* on its own fields, and on its statement handle whatever became of it
HeldNextDetached(c) ==
    /\ ~crashed
    /\ held[c] # NoneOpt
    /\ ~held[c][1].current
    /\ \E ub \in (IF held[c][1].it.statement # 0 THEN UB ELSE {"misuse"}) :
         LET w == NextResult(IterNext(
                      World([cursors[c] EXCEPT !.iterator = Some(held[c][1].it)],
                            ub)))
         IN /\ held' = [held EXCEPT ![c] = Some(Detached(w.cur.iterator[1]))]
            /\ Landed(w, "next", c, <<>>)
            /\ UNCHANGED <<cursors, fetched, queried, stepped, inserted,
                           closeAsked>>

\* the commands issued while iterating: a query and an insert
IterCommands == {<<T_SELECT, <<>>>>, <<T_INSERT, <<PyInt(1)>>>>}

NextIter ==
    \/ ConnCursor
    \/ \E c \in 1..Len(cursors), cmd \in IterCommands :
          CurExecute(c, cmd[1], cmd[2])
    \/ \E c \in 1..Len(cursors), text \in {T_INSERT, T_SELECT},
          seq \in {<<>>, <<<<PyInt(1)>>>>} :
          CurExecutemany(c, text, seq)
    \/ \E c \in 1..Len(cursors) : CurIter(c)
    \/ \E c \in 1..Len(cursors) : HeldNextCurrent(c)
    \/ \E c \in 1..Len(cursors) : HeldNextDetached(c)

SpecIter == InitIter /\ [][NextIter]_vars

\* C17: an iterator obtained from the cursor before a new execute or
\* executemany is superseded by it: next on it yields no row and makes no
\* native step or column read; it ends the iteration.
C17_SupersededIteratorSafe ==
    [][\A c \in 1..Len(cursors) :
          (/\ lastOp'.op = "next"
           /\ lastOp'.cur = c
           /\ held[c] # NoneOpt
           /\ ~held[c][1].current)
             => /\ lastOp'.exc = "StopIteration"
                /\ lastOp'.calls = <<>>
                /\ ~lastOp'.uaf]_vars

\* the native calls of an execute[many] that belong to running the
\* statement, as opposed to the hooks' own
RunCalls == {"finalize", "prepare", "bind", "step", "reset"}

\* C18: an execute or executemany that completes has run the description
\* hook and then the lastrowid hook, once each, after every native call
\* that runs the statement (the first step of execute, the whole
\* bind/step/reset loop of executemany), with the cursor's statement and
\* the operation text of the call; one that raises has run no hook and
\* leaves description and lastrowid as they were.
C18_HooksOncePerExecution ==
    [][\A c \in 1..Len(cursors) :
          (lastOp'.op \in {"execute", "executemany"} /\ lastOp'.cur = c)
             => IF lastOp'.exc = "none"
                THEN /\ Len(lastOp'.hooks) = 2
                     /\ lastOp'.hooks[1].hook = "description"
                     /\ lastOp'.hooks[2].hook = "lastrowid"
                     /\ \A k \in 1..2 :
                           /\ lastOp'.hooks[k].statement = cursors'[c].statement
                           /\ lastOp'.hooks[k].operation = Some(lastOp'.arg[1])
                           /\ \A i \in 1..Len(lastOp'.calls) :
                                 lastOp'.calls[i] \in RunCalls
                                    => i <= lastOp'.hooks[k].after
                     /\ lastOp'.hooks[1].after <= lastOp'.hooks[2].after
                     /\ lastOp'.op = "execute"
                           => "step" \in Range(lastOp'.calls)
                ELSE /\ lastOp'.hooks = <<>>
                     /\ cursors'[c].description = cursors[c].description
                     /\ cursors'[c].lastrowid = cursors[c].lastrowid]_vars

\* an executemany over two parameter rows completed after an earlier query:
\* its hooks ran after the loop
C18_Witness ==
    /\ lastOp.op = "executemany"
    /\ lastOp.exc = "none"
    /\ Len(lastOp.arg[2]) = 2
    /\ Len(lastOp.hooks) = 2
    /\ lastOp.hooks[1].after = Len(SelectSeq(lastOp.calls, LAMBDA f : f \in RunCalls))
    /\ Steps(lastOp.calls) = 2

\* the calls among calls that run the statement, in order
RunOf(calls) == SelectSeq(calls, LAMBDA f : f \in RunCalls)

\* C19: an execute that completes has finalized the statement held before,
\* prepared, bound every parameter and stepped exactly once, in this order
\* and before its hooks; a statement whose step fails makes execute itself
\* raise; from then on every row returned costs one more step, so that the
\* first row returned is the row of the step made by execute and a result
\* of n rows is exhausted after n + 1 steps.
C19_OneStepInExecute ==
    [][\A c \in 1..Len(cursors) :
          /\ (lastOp'.op = "execute" /\ lastOp'.cur = c /\ lastOp'.exc = "none")
                => /\ RunOf(lastOp'.calls) =
                         (IF cursors[c].statement # 0
                          THEN <<"finalize">> ELSE <<>>)
                         \o <<"prepare">>
                         \o [i \in 1..Len(lastOp'.arg[2]) |-> "bind"]
                         \o <<"step">>
                   /\ lastOp'.hooks # <<>>
                   /\ lastOp'.hooks[1].after >= Len(RunOf(lastOp'.calls))
                   /\ stepped'[c] = 1
          /\ (/\ lastOp'.op = "execute"
              /\ lastOp'.cur = c
              /\ cursors'[c].statement # 0
              /\ stmts'[cursors'[c].statement].state = "error")
                => lastOp'.exc = "DatabaseError"
          /\ (c \in queried' /\ cursors'[c].iterator # NoneOpt /\ ~crashed')
                => LET rows == stmts'[cursors'[c].iterator[1].statement].rows
                   IN /\ stepped'[c] = Len(fetched'[c]) + 1
                      /\ (fetched'[c] # <<>> /\ rows # <<>>)
                            => fetched'[c][1] = ExpectedRows(rows)[1]
                      /\ Exhausted(c)'
                            => stepped'[c] = Len(rows) + 1]_vars

\* a query of two rows was fetched to its end: three steps
C19_Witness ==
    \E c \in queried :
       /\ Exhausted(c)
       /\ Len(stmts[cursors[c].iterator[1].statement].rows) = 2
       /\ Len(fetched[c]) = 2
       /\ stepped[c] = 3

\* C20: execute(text, params) with fewer or more parameters than text has
\* placeholders, or with a parameter of a type bind_param has no branch
\* for, raises a DatabaseError from the return-code guard before the
\* statement is stepped and before any hook runs.
C20_ParameterMismatchRaises ==
    [][(/\ lastOp'.op = "execute"
        /\ EngineParse(lastOp'.arg[1]).kind # ""
        /\ \/ Len(lastOp'.arg[2]) # EngineParse(lastOp'.arg[1]).nparams
           \/ \E i \in 1..Len(lastOp'.arg[2]) :
                 lastOp'.arg[2][i].type \notin BindTypes)
          => /\ lastOp'.exc = "DatabaseError"
             /\ "step" \notin Range(lastOp'.calls)
             /\ lastOp'.hooks = <<>>]_vars

\* the calls of executemany's loop over seq: per tuple its binds, one step
\* and one reset
RECURSIVE LoopCalls(_)
LoopCalls(seq) ==
    IF seq = <<>> THEN <<>>
    ELSE [i \in 1..Len(Head(seq)) |-> "bind"] \o <<"step", "reset">>
         \o LoopCalls(Tail(seq))

\* the steps among calls that returned normally, the call having raised exc
StepsDone(calls, exc) ==
    IF exc # "none" /\ RunOf(calls) # <<>>
       /\ RunOf(calls)[Len(RunOf(calls))] = "step"
    THEN Steps(calls) - 1 ELSE Steps(calls)

\* C21: executemany on a text classified Data-Manipulation finalizes the
\* statement held before, prepares once and then, tuple by tuple in order,
\* binds, steps once and resets; when it completes the steps are as many
\* as the tuples.  When a call fails the exception is raised there, nothing
\* later is called, and the rows the earlier tuples inserted stay.
C21_ExecutemanyLoop ==
    [][\A c \in 1..Len(cursors) :
          (/\ lastOp'.op = "executemany"
           /\ lastOp'.cur = c
           /\ lastOp'.exc # "crash"
           /\ is_dml_operation(lastOp'.arg[1]).exc = "none"
           /\ is_dml_operation(lastOp'.arg[1]).val)
             => LET full == (IF cursors[c].statement # 0
                             THEN <<"finalize">> ELSE <<>>)
                            \o <<"prepare">> \o LoopCalls(lastOp'.arg[2])
                    run == RunOf(lastOp'.calls)
                    done == StepsDone(lastOp'.calls, lastOp'.exc)
                IN /\ Len(run) <= Len(full)
                   /\ run = SubSeq(full, 1, Len(run))
                   /\ lastOp'.exc = "none"
                         => (run = full /\ Steps(lastOp'.calls) = Len(lastOp'.arg[2]))
                   /\ EngineParse(lastOp'.arg[1]).kind = "INSERT"
                         => table' = table \o
                               [k \in 1..done |-> BoundValue(lastOp'.arg[2][k][1])]]_vars

\* the second of two tuples failed at its step: the first one's row stays
C21_Witness ==
    /\ lastOp.op = "executemany"
    /\ lastOp.arg = <<T_INSERT, <<<<PyInt(1)>>, <<None>>>>>>
    /\ lastOp.exc = "DatabaseError"
    /\ RunOf(lastOp.calls) = <<"prepare", "bind", "step", "reset", "bind", "step">>
    /\ table = <<[tag |-> SQLITE_INTEGER, v |-> 1]>>

\* C22: an integer within 64 bits, bound as the parameter of an INSERT, is
\* accepted, and the row of that INSERT read back by a fetch holds the same
\* integer: nothing is cut to its low 32 bits.
C22_Int64RoundTrip ==
    /\ (/\ lastOp.op = "execute"
        /\ lastOp.arg[1] = T_INSERT
        /\ lastOp.arg[2] \in {<<value>> : value \in {v \in CodecValues : v.type = "int"}})
          => lastOp.exc = "none"
    /\ (/\ lastOp.op = "fetchone"
        /\ inserted # NoneOpt
        /\ inserted[1].type = "int")
          => \A i \in 1..Len(lastOp.ret) :
                lastOp.ret[i][1] = PyInt(Len(table))
                   => lastOp.ret[i][2] = inserted[1]

(* ---------------------- the return-code guard alone -------------------- *)
\* the status codes given to the guard: every code up to SQLITE_DONE
ReturnCodes == 0..SQLITE_DONE

\* return rc, at the end of sqlite3_call
ReturnRc(w) ==
    IF w.exc # "none" THEN [w EXCEPT !.ret = NoneOpt]
    ELSE [w EXCEPT !.ret = Some(w.rc)]

\* sqlite3_call(func, *args) for a func that returns rc
GuardCall(rc) ==
    /\ ~crashed
    /\ lastOp' = Outcome(
                    ReturnRc(sqlite3_call(
                        [World(Cursor(0), "misuse") EXCEPT !.rc = rc])),
                    "sqlite3_call", 0, rc)
    /\ UNCHANGED <<closed, cursors, stmts, table, saved, txn, rowid, crashed,
                   fetched, queried, stepped, held, inserted, closeAsked>>

\* the guard by itself, and the callers whose prepare, bind, step or reset
\* can fail
NextGuard ==
    \/ \E rc \in ReturnCodes : GuardCall(rc)
    \/ ConnCursor
    \/ \E c \in 1..Len(cursors), text \in {T_INSERT, T_CALL}, params \in ExecParams :
          CurExecute(c, text, params)
    \/ \E c \in 1..Len(cursors), seq \in ManyParams :
          CurExecutemany(c, T_INSERT, seq)

SpecGuard == Init /\ [][NextGuard]_vars

\* C23: the guard raises DatabaseError with the engine's message for a
\* status code exactly when the code is none of ok, row, done, and
\* sqlite3_call returns the code exactly when the guard did not raise; a
\* caller whose native call failed has made no call after it and run no hook.
C23_GuardRaisesIffFailure ==
    /\ lastOp.op = "sqlite3_call"
          => IF lastOp.arg \in {SQLITE_OK, SQLITE_ROW, SQLITE_DONE}
             THEN lastOp.exc = "none" /\ lastOp.ret = Some(lastOp.arg)
             ELSE /\ lastOp.exc = "DatabaseError"
                  /\ lastOp.msg = errstr(lastOp.arg)
                  /\ lastOp.ret = NoneOpt
    /\ (lastOp.op \in {"execute", "executemany"} /\ lastOp.exc = "DatabaseError")
          => /\ lastOp.calls # <<>>
             /\ lastOp.calls[Len(lastOp.calls)] \in RunCalls
             /\ lastOp.hooks = <<>>

\* the guard was given SQLITE_CONSTRAINT and raised with its message
C23_Witness ==
    /\ lastOp.op = "sqlite3_call"
    /\ lastOp.arg = SQLITE_CONSTRAINT
    /\ lastOp.exc = "DatabaseError"
    /\ lastOp.msg = "constraint failed"

(* --------------------- two cursors on one connection ------------------- *)
\* cursors of the interleavings of two cursors
MaxPair == 2

\* connection.cursor(), while the caller holds fewer than limit cursors
ConnCursorUpTo(limit) ==
    /\ ~crashed
    /\ Len(cursors) < limit
    /\ ConnLanded(conn_cursor(World(Cursor(0), "misuse"), Len(cursors) + 1),
                  "cursor")

\* the commands the two cursors execute: a query, an insert, and an insert
\* that fails at its step
PairCommands ==
    {<<T_SELECT, <<>>>>, <<T_INSERT, <<PyInt(1)>>>>, <<T_INSERT, <<None>>>>}

\* cursor.execute(text) for a text the engine does not compile: no handle
\* is made
CurExecuteRejected(c, text) ==
    /\ ~crashed
    /\ EngineParse(text).kind = ""
    /\ \E ub \in UBFor(c) :
         CursorLanded(execute(World(cursors[c], ub), text, <<>>),
                      "execute", c, <<text, <<>>>>)

\* the parameter sequences the two cursors give executemany
PairMany == {<<>>, <<<<PyInt(2)>>>>}

\* any single-threaded interleaving of the operations of the cursors
NextPair ==
    \/ ConnCursorUpTo(MaxPair)
    \/ \E c \in 1..Len(cursors), cmd \in PairCommands :
          CurExecute(c, cmd[1], cmd[2])
    \/ \E c \in 1..Len(cursors) : CurExecuteRejected(c, T_CALL)
    \/ \E c \in 1..Len(cursors), text \in {T_INSERT, T_SELECT}, seq \in PairMany :
          CurExecutemany(c, text, seq)
    \/ \E c \in 1..Len(cursors) : CurFetchone(c)
    \/ \E c \in 1..Len(cursors) : CurFetchall(c)
    \/ \E c \in 1..Len(cursors) : CurSetArraysize(c, PyInt(2))
    \/ \E c \in 1..Len(cursors), args \in CloseArgs : CurClose(c, args)

SpecPair == Init /\ [][NextPair]_vars

\* C24: the lastrowid an INSERT- or REPLACE-classified execution stores is
\* the connection's last insert row id when its hook ran, whichever cursor
\* inserted that row, also when the execution itself inserted none; and a
\* call on one cursor leaves the lastrowid of every other cursor alone.
C24_LastrowidConnectionWide ==
    [][\A c \in 1..Len(cursors) :
          /\ (/\ lastOp'.op \in {"execute", "executemany"}
              /\ lastOp'.cur = c
              /\ lastOp'.exc = "none"
              /\ Command(lastOp'.arg[1]) \in {"INSERT", "REPLACE"})
                => cursors'[c].lastrowid = Some(rowid')
          /\ (lastOp'.op \in CursorOps \cup {"arraysize", "cursor.close"}
              /\ lastOp'.cur # c)
                => cursors'[c].lastrowid = cursors[c].lastrowid]_vars

\* cursor 1 inserted row 1; cursor 2 then ran executemany over no tuples
\* and holds row id 1
C24_Witness ==
    /\ Len(cursors) = 2
    /\ lastOp.op = "executemany"
    /\ lastOp.cur = 2
    /\ lastOp.arg = <<T_INSERT, <<>>>>
    /\ lastOp.exc = "none"
    /\ Steps(lastOp.calls) = 0
    /\ Len(table) = 1
    /\ cursors[1].lastrowid = Some(1)
    /\ cursors[2].lastrowid = Some(1)

\* C25: no call after the open issues a BEGIN.  A commit() or rollback()
\* that succeeds has prepared and stepped exactly one statement, a COMMIT
\* or a ROLLBACK, and leaves no transaction active; with no transaction
\* active, commit() and rollback() on an open connection fail with a
\* DatabaseError of the engine.
C25_OnlyBeginAtOpen ==
    [][/\ \A h \in (Len(stmts) + 1)..Len(stmts') : stmts'[h].kind # "BEGIN"
       /\ txn' => txn
       /\ (lastOp'.op \in {"commit", "rollback"} /\ lastOp'.exc = "none")
             => /\ ~txn'
                /\ lastOp'.calls = <<"prepare", "step">>
                /\ Len(stmts') = Len(stmts) + 1
                /\ stmts'[Len(stmts')].kind =
                      (IF lastOp'.op = "commit" THEN "COMMIT" ELSE "ROLLBACK")
       /\ (lastOp'.op \in {"commit", "rollback"} /\ ~txn /\ ~closed)
             => /\ lastOp'.exc = "DatabaseError"
                /\ lastOp'.msg = errstr(SQLITE_ERROR)]_vars

\* after a commit that succeeded, a rollback failed in the engine
C25_Witness ==
    /\ lastOp.op = "rollback"
    /\ lastOp.exc = "DatabaseError"
    /\ ~txn
    /\ ~closed
    /\ Len(stmts) = 3
    /\ stmts[2].kind = "COMMIT"
    /\ stmts[2].state = "done"
    /\ stmts[3].kind = "ROLLBACK"
    /\ stmts[3].state = "error"

\* C26: a call on one cursor leaves every other cursor as it was: its
\* attributes (statement, iterator, description, lastrowid, arraysize), the
\* engine's statement behind it with its position, and whether close() was
\* called on it; and it leaves the connection open or closed as it was.
C26_CursorsIndependent ==
    [][\A b \in 1..Len(cursors) :
          (/\ lastOp'.op \in CursorOps \cup {"arraysize", "cursor.close"}
           /\ lastOp'.cur # b
           /\ ~crashed')
             => /\ cursors'[b] = cursors[b]
                /\ cursors[b].statement # 0
                      => stmts'[cursors[b].statement] = stmts[cursors[b].statement]
                /\ (b \in closeAsked') = (b \in closeAsked)
                /\ closed' = closed]_vars

\* C27: an executemany whose text is not classified Data-Manipulation is
\* rejected with no native call and changes nothing: the cursor's
\* statement, iterator, description, lastrowid and arraysize, and the
\* engine with the position of the cursor's statement, are as before, so
\* that the rows of an earlier query can still be fetched.
C27_RejectedExecutemanyIsNoOp ==
    [][\A c \in 1..Len(cursors) :
          (/\ lastOp'.op = "executemany"
           /\ lastOp'.cur = c
           /\ ~is_dml_operation(lastOp'.arg[1]).val)
             => /\ lastOp'.exc \in {"ProgrammingError", "IndexError"}
                /\ lastOp'.calls = <<>>
                /\ lastOp'.hooks = <<>>
                /\ cursors'[c] = cursors[c]
                /\ UNCHANGED <<stmts, table, saved, txn, rowid, closed>>]_vars

\* a rejected executemany on a cursor whose query has a row left to fetch
C27_Witness ==
    \E c \in 1..Len(cursors) :
       /\ lastOp.op = "executemany"
       /\ lastOp.cur = c
       /\ lastOp.arg[1] = T_SELECT
       /\ lastOp.exc = "ProgrammingError"
       /\ cursors[c].iterator # NoneOpt
       /\ cursors[c].iterator[1].prev_step_rc = SQLITE_ROW
       /\ IsLive([stmts |-> stmts], cursors[c].statement)
       /\ stmts[cursors[c].statement].pos = 1
====
